---- MODULE Spec2Model ----
(***************************************************************************)
(* Model of opcua/common/subscription.py: one Subscription object, the     *)
(* application threads that call subscribe_data_change, subscribe_events   *)
(* and unsubscribe on it, and the transport thread that hands publish      *)
(* responses to publish_callback.  A `with self._lock:` block is one step, *)
(* taken only while no other thread is inside such a block; the block of   *)
(* _make_monitored_item_request, which reads the counter twice, is three.  *)
(* A publish response is read as publish_callback iterates over it: the    *)
(* number of its records is known when it arrives, a record's content when *)
(* the loop reaches it.                                                    *)
(***************************************************************************)
EXTENDS Integers, Sequences, FiniteSets, TLC

(* ------------------------------ bounds --------------------------------- *)
NumCallers == 2      \* application threads
MaxItems == 2        \* client handles allocated over the subscription's life
MaxBatch == 2        \* nodes in one subscribe_data_change call
MaxUnsub == 1        \* unsubscribe calls of one application thread
MaxResponses == 2    \* publish responses delivered
MaxNotifs == 2       \* NotificationData records in one publish response
MaxRecs == 2         \* MonitoredItems / Events in one notification record
MaxPrior == 1        \* publish requests of the session outstanding before __init__

(* ------------------------- program constants --------------------------- *)
None == 0                  \* an unset subscription_id / server_handle
FirstClientHandle == 200   \* self._client_handle = 200
UnknownHandle == 999       \* a client handle that was never registered
SubId == 7                 \* the SubscriptionId the server issues

Callers == 1..NumCallers
Pub == 0                   \* the thread that runs publish_callback
\* what the application subscribes to: the node E1, or a list [E1, E2, ...]
NodeNames == <<"E1", "E2", "E3", "E4">>
NodeArgs ==
    {<<"E1">>} \cup {SubSeq(NodeNames, 1, k) : k \in 2..MaxBatch}
IsList(ns) == Len(ns) > 1
ServerNode == "Server"     \* ua.ObjectIds.Server, the default sourcenode of subscribe_events
Values == {42}             \* what an item of a notification carries

VARIABLES
    subscription_id,        \* self.subscription_id
    client_handle,          \* self._client_handle
    monitoreditems_map,     \* self._monitoreditems_map: client handle -> SubscriptionItemData
    lock,                   \* self._lock: the set of threads inside a `with self._lock`
    handler,                \* the callbacks self._handler has (hasattr)
    ctor,                   \* position of __init__
    pc,                     \* position of each application thread
    op,                     \* locals of each application thread's running call
    pub,                    \* position and locals of publish_callback
    server,                 \* the collaborator: ids issued, publish requests outstanding
    acks,                   \* acknowledgements passed to server.publish, in order
    trace,                  \* what became of each item of the notification record at hand
    finished,               \* how publish_callback ended for each response
    assigned,               \* client handles put into requests, in allocation order
    returned,               \* handles subscribe calls returned, with the item they created
    unsubs                  \* number of unsubscribe calls each thread started

vars == <<subscription_id, client_handle, monitoreditems_map, lock, handler, ctor, pc, op,
          pub, server, acks, trace, finished, assigned, returned, unsubs>>

(* ------------------------------ helpers -------------------------------- *)
\* del d[k]
DictDel(d, k) == [x \in (DOMAIN d) \ {k} |-> d[x]]

\* (variant of DictSet: the assignment drops the other keys)
DictSetAlone(d, k, v) == [x \in {k} |-> v]

\* d[k] = v
DictSet(d, k, v) == [x \in (DOMAIN d) \cup {k} |-> IF x = k THEN v ELSE d[x]]

\* SubscriptionItemData()
SubscriptionItemData ==
    [node |-> "None", client_handle |-> None, server_handle |-> None,
     attribute |-> "None", mfilter |-> "None"]

\* the handler shapes: SubHandler, a handler with the deprecated methods only, an empty one
Handlers ==
    { {"datachange_notification", "data_change", "event_notification",
       "status_change_notification"},
      {"data_change", "event"},
      {} }

hasattr(h, name) == name \in h

IdleOp ==
    [name |-> "none", nodes |-> <<>>, is_list |-> FALSE, attr |-> "None",
     mfilter |-> "None", mirs |-> <<>>, results |-> <<>>, mids |-> <<>>, handle |-> None,
     ids |-> <<>>, error |-> "None"]

NoItem == [ClientHandle |-> None, Value |-> None]

IdlePub ==
    [pc |-> "idle", seq |-> 0, n |-> 0, i |-> 1, type |-> "None", m |-> 0,
     j |-> 1, item |-> NoItem, entry |-> SubscriptionItemData, pending |-> FALSE,
     raised |-> FALSE, early |-> FALSE]

Init ==
    /\ subscription_id = None
    /\ client_handle = FirstClientHandle
    /\ monitoreditems_map = << >>
    /\ lock = {}
    /\ handler \in Handlers
    /\ ctor = "create_subscription"
    /\ pc = [t \in Callers |-> "idle"]
    /\ op = [t \in Callers |-> IdleOp]
    /\ pub = IdlePub
    /\ server = [next_mid |-> 1, outstanding |-> 0, seq |-> 0, requests |-> <<>>]
    /\ acks = <<>>
    /\ trace = <<>>
    /\ finished = <<>>
    /\ assigned = <<>>
    /\ returned = {}
    /\ unsubs = [t \in Callers |-> 0]

(* --------------------------- Subscription.__init__ --------------------- *)
\* a request __init__ passes to the collaborator
Request(name, ackl) == [name |-> name, acks |-> ackl]

\* (variant of CtorNext: the first publish request is sent before the id is stored)
CtorNextPublishFirst(pos) ==
    CASE pos = "create_subscription" -> "publish1"
      [] pos = "publish1" -> "store"
      [] pos = "store" -> "publish2"
      [] pos = "publish2" -> "done"

\* the statement of __init__ that follows the one at pos
CtorNext(pos) ==
    CASE pos = "create_subscription" -> "store"
      [] pos = "store" -> "publish1"
      [] pos = "publish1" -> "publish2"
      [] pos = "publish2" -> "done"

\* response = self.server.create_subscription(params, self.publish_callback)
CtorCreate ==
    /\ ctor = "create_subscription"
    /\ server' = [server EXCEPT !.requests = Append(@, Request("create_subscription", <<>>))]
    /\ ctor' = CtorNext(ctor)
    /\ UNCHANGED <<subscription_id, client_handle, monitoreditems_map, lock, handler, pc, op,
                   pub, acks, trace, finished, assigned, returned, unsubs>>

\* server.create_subscription raises: the exception leaves __init__
CtorFail ==
    /\ ctor = "create_subscription"
    /\ server' = [server EXCEPT !.requests = Append(@, Request("create_subscription", <<>>))]
    /\ ctor' = "failed"
    /\ UNCHANGED <<subscription_id, client_handle, monitoreditems_map, lock, handler, pc, op,
                   pub, acks, trace, finished, assigned, returned, unsubs>>

\* self.subscription_id = response.SubscriptionId
CtorStore ==
    /\ ctor = "store"
    /\ subscription_id' = SubId
    /\ ctor' = CtorNext(ctor)
    /\ UNCHANGED <<client_handle, monitoreditems_map, lock, handler, pc, op, pub, server,
                   acks, trace, finished, assigned, returned, unsubs>>

\* self.server.publish(), twice
CtorPublish ==
    /\ ctor \in {"publish1", "publish2"}
    /\ server' = [server EXCEPT !.outstanding = @ + 1,
                                !.requests = Append(@, Request("publish", <<>>))]
    /\ ctor' = CtorNext(ctor)
    /\ UNCHANGED <<subscription_id, client_handle, monitoreditems_map, lock, handler, pc, op,
                   pub, acks, trace, finished, assigned, returned, unsubs>>

(* ------------------------------ the lock ------------------------------- *)
\* (variant of LockFree: the block is entered without taking the lock)
LockIgnored == TRUE

\* `with self._lock:` is entered only while no thread is inside such a block
LockFree == lock = {}

Acquire(t) == LockFree /\ lock' = lock \cup {t}

Release(t) == lock' = lock \ {t}

\* (variant of WithLock: the lock is not released where the block ends)
WithLockKept(t) == LockFree /\ lock' = lock \cup {t}

\* a `with self._lock:` block that thread t runs in one step: the lock is taken
\* where the block begins and released where it ends or is left
WithLock(t) == LockFree /\ lock' = (lock \cup {t}) \ {t}

(* ---------------- subscribe_data_change / subscribe_events ------------- *)
\* handles that calls already started still have to allocate
Reserved ==
    LET Need(t) == IF pc[t] \in {"mk_acquire", "mk_incr"}
                   THEN Len(op[t].nodes) - Len(op[t].mirs)
                   ELSE IF pc[t] = "mk_read"
                   THEN Len(op[t].nodes) - Len(op[t].mirs) - 1 ELSE 0
        RECURSIVE Sum(_)
        Sum(S) == IF S = {} THEN 0
                  ELSE LET t == CHOOSE x \in S : TRUE IN Need(t) + Sum(S \ {t})
    IN Sum(Callers)

CanAllocate(n) == client_handle + Reserved + n <= FirstClientHandle + MaxItems

\* subscribe_data_change(nodes, attr): _subscribe(nodes, attr, queuesize=0)
SubscribeDataChange(t) ==
    /\ ctor = "done"
    /\ pc[t] = "idle"
    /\ \E ns \in NodeArgs :
          /\ CanAllocate(Len(ns))
          /\ op' = [op EXCEPT ![t] = [IdleOp EXCEPT !.name = "subscribe_data_change",
                                                    !.nodes = ns, !.is_list = IsList(ns),
                                                    !.attr = "Value"]]
    /\ pc' = [pc EXCEPT ![t] = "mk_acquire"]
    /\ UNCHANGED <<subscription_id, client_handle, monitoreditems_map, lock, handler, ctor,
                   pub, server, acks, trace, finished, assigned, returned, unsubs>>

\* subscribe_events(sourcenode, evtype, evfilter): _subscribe(sourcenode, EventNotifier, evfilter)
SubscribeEvents(t) ==
    /\ ctor = "done"
    /\ pc[t] = "idle"
    /\ CanAllocate(1)
    /\ op' = [op EXCEPT ![t] = [IdleOp EXCEPT !.name = "subscribe_events",
                                              !.nodes = <<ServerNode>>, !.is_list = FALSE,
                                              !.attr = "EventNotifier",
                                              !.mfilter = "EventFilter"]]
    /\ pc' = [pc EXCEPT ![t] = "mk_acquire"]
    /\ UNCHANGED <<subscription_id, client_handle, monitoreditems_map, lock, handler, ctor,
                   pub, server, acks, trace, finished, assigned, returned, unsubs>>

\* _make_monitored_item_request: with self._lock:
MakeRequestAcquire(t) ==
    /\ pc[t] = "mk_acquire"
    /\ Acquire(t)
    /\ pc' = [pc EXCEPT ![t] = "mk_incr"]
    /\ UNCHANGED <<subscription_id, client_handle, monitoreditems_map, handler, ctor, op,
                   pub, server, acks, trace, finished, assigned, returned, unsubs>>

\* self._client_handle += 1
MakeRequestIncrement(t) ==
    /\ pc[t] = "mk_incr"
    /\ client_handle' = client_handle + 1
    /\ pc' = [pc EXCEPT ![t] = "mk_read"]
    /\ UNCHANGED <<subscription_id, monitoreditems_map, lock, handler, ctor, op,
                   pub, server, acks, trace, finished, assigned, returned, unsubs>>

\* the MonitoredItemCreateRequest built for node, carrying client handle h
MonitoredItemCreateRequest(node, attr, mfilter, h) ==
    [NodeId |-> node, AttributeId |-> attr, ClientHandle |-> h, Filter |-> mfilter]

\* mparams.ClientHandle = self._client_handle; the block ends and the request is completed
MakeRequestRead(t) ==
    /\ pc[t] = "mk_read"
    /\ LET node == op[t].nodes[Len(op[t].mirs) + 1]
           mir == MonitoredItemCreateRequest(node, op[t].attr, op[t].mfilter, client_handle)
           mirs == Append(op[t].mirs, mir)
       IN /\ op' = [op EXCEPT ![t].mirs = mirs]
          /\ assigned' = Append(assigned, mir)
          /\ pc' = [pc EXCEPT ![t] = IF Len(mirs) = Len(op[t].nodes)
                                     THEN "cmi_insert" ELSE "mk_acquire"]
    /\ Release(t)
    /\ UNCHANGED <<subscription_id, client_handle, monitoreditems_map, handler, ctor,
                   pub, server, acks, trace, finished, returned, unsubs>>

(* ------------------------ create_monitored_items ----------------------- *)
\* the placeholder of one request: server_handle is left as None
Placeholder(mi) ==
    [SubscriptionItemData EXCEPT !.client_handle = mi.ClientHandle, !.node = mi.NodeId,
                                 !.attribute = mi.AttributeId, !.mfilter = mi.Filter]

\* (variant of InsertAll: nothing is registered before the request is sent)
InsertDeferred(map, mirs) == map

\* for mi in monitored_items: self._monitoreditems_map[mi...ClientHandle] = data
RECURSIVE InsertAll(_, _)
InsertAll(map, mirs) ==
    IF mirs = <<>> THEN map
    ELSE InsertAll(DictSet(map, Head(mirs).ClientHandle, Placeholder(Head(mirs))), Tail(mirs))

\* create_monitored_items: first `with self._lock:`
CreateItemsInsert(t) ==
    /\ pc[t] = "cmi_insert"
    /\ WithLock(t)
    /\ monitoreditems_map' = InsertAll(monitoreditems_map, op[t].mirs)
    /\ pc' = [pc EXCEPT ![t] = "cmi_send"]
    /\ UNCHANGED <<subscription_id, client_handle, handler, ctor, op,
                   pub, server, acks, trace, finished, assigned, returned, unsubs>>

\* the results the server gives for statuses st: one per request, a fresh
\* MonitoredItemId for every good one
RECURSIVE CreateResults(_, _)
CreateResults(st, next) ==
    IF st = <<>> THEN <<>>
    ELSE IF Head(st) = "Good"   \* a good result carries the id of the new item
         THEN <<[StatusCode |-> "Good", MonitoredItemId |-> next]>>
              \o CreateResults(Tail(st), next + 1)
         ELSE <<[StatusCode |-> Head(st), MonitoredItemId |-> None]>>
              \o CreateResults(Tail(st), next)

\* the status codes the server answers with
StatusCodes == {"Good", "BadNodeIdUnknown"}

is_good(status) == status = "Good"

\* results = self.server.create_monitored_items(params)
CreateItemsSend(t) ==
    /\ pc[t] = "cmi_send"
    /\ \E st \in [1..Len(op[t].mirs) -> StatusCodes] :
          LET results == CreateResults(st, server.next_mid)
              good == Cardinality({i \in DOMAIN st : is_good(st[i])})
          IN /\ op' = [op EXCEPT ![t].results = results]
             /\ server' = [server EXCEPT !.next_mid = @ + good]
    /\ pc' = [pc EXCEPT ![t] = "cmi_process"]
    /\ UNCHANGED <<subscription_id, client_handle, monitoreditems_map, lock, handler, ctor,
                   pub, acks, trace, finished, assigned, returned, unsubs>>

\* server.create_monitored_items raises: the exception leaves create_monitored_items
\* and _subscribe
CreateItemsTransportError(t) ==
    /\ pc[t] = "cmi_send"
    /\ pc' = [pc EXCEPT ![t] = "raised"]
    /\ op' = [op EXCEPT ![t].error = "TransportError"]
    /\ UNCHANGED <<subscription_id, client_handle, monitoreditems_map, lock, handler, ctor,
                   pub, server, acks, trace, finished, assigned, returned, unsubs>>

\* server.create_monitored_items returns fewer results than it was sent requests
CreateItemsShort(t) ==
    /\ pc[t] = "cmi_send"
    /\ \E k \in 0..(Len(op[t].mirs) - 1) :
          \E st \in [1..k -> StatusCodes] :
             LET results == CreateResults(st, server.next_mid)
                 good == Cardinality({i \in DOMAIN st : is_good(st[i])})
             IN /\ op' = [op EXCEPT ![t].results = results]
                /\ server' = [server EXCEPT !.next_mid = @ + good]
    /\ pc' = [pc EXCEPT ![t] = "cmi_process"]
    /\ UNCHANGED <<subscription_id, client_handle, monitoreditems_map, lock, handler, ctor,
                   pub, acks, trace, finished, assigned, returned, unsubs>>

\* an element of mids: a MonitoredItemId or a StatusCode
Mid(id) == [type |-> "int", id |-> id, status |-> "None"]
StatusCode(status) == [type |-> "StatusCode", id |-> None, status |-> status]

\* (variant of FailedItem: the placeholder of a rejected request is left in the map)
FailedItemKept(map, h) == map

\* what is done for a result that is not good: the placeholder is deleted
FailedItem(map, h) == DictDel(map, h)

\* (variant of CreatedItem: the entry keeps no server handle)
CreatedItemUnset(map, h, id) == map

\* what is done for a good result: data.server_handle = result.MonitoredItemId
CreatedItem(map, h, id) == [map EXCEPT ![h].server_handle = id]

\* for idx, result in enumerate(results): ...   acc = [map, mids, raised]
RECURSIVE ProcessResults(_, _, _, _)
ProcessResults(acc, mirs, results, idx) ==
    IF idx > Len(results) \/ acc.raised THEN acc
    ELSE LET h == mirs[idx].ClientHandle
             result == results[idx]
         IN IF h \notin DOMAIN acc.map
            THEN [acc EXCEPT !.raised = TRUE]                         \* KeyError
            ELSE IF ~is_good(result.StatusCode)
            THEN ProcessResults([acc EXCEPT !.map = FailedItem(@, h),
                                            !.mids = Append(@, StatusCode(result.StatusCode))],
                                mirs, results, idx + 1)
            ELSE ProcessResults([acc EXCEPT !.map = CreatedItem(@, h, result.MonitoredItemId),
                                            !.mids = Append(@, Mid(result.MonitoredItemId))],
                                mirs, results, idx + 1)

\* create_monitored_items: second `with self._lock:`
CreateItemsProcess(t) ==
    /\ pc[t] = "cmi_process"
    /\ WithLock(t)
    /\ LET r == ProcessResults([map |-> monitoreditems_map, mids |-> <<>>, raised |-> FALSE],
                               op[t].mirs, op[t].results, 1)
       IN /\ monitoreditems_map' = r.map
          /\ op' = [op EXCEPT ![t].mids = r.mids,
                               ![t].error = IF r.raised THEN "KeyError" ELSE "None"]
          /\ pc' = [pc EXCEPT ![t] = IF r.raised THEN "raised" ELSE "sub_return"]
    /\ UNCHANGED <<subscription_id, client_handle, handler, ctor,
                   pub, server, acks, trace, finished, assigned, returned, unsubs>>

\* (variant of ReturnedHandle: the client handle of the request is handed back)
ReturnedClientHandle(o, idx) == o.mirs[idx].ClientHandle

\* the handle _subscribe hands back for request idx: mids[idx]
ReturnedHandle(o, idx) == o.mids[idx].id

\* _subscribe, after create_monitored_items: return mids, or mids[0] (IndexError
\* for an empty mids; check() raises BadStatus for a StatusCode)
SubscribeReturn(t) ==
    /\ pc[t] = "sub_return"
    /\ LET o == op[t]
           good == {i \in DOMAIN o.mids : o.mids[i].type = "int"}
       IN IF ~o.is_list /\ o.mids = <<>>
          THEN /\ pc' = [pc EXCEPT ![t] = "raised"]
               /\ op' = [op EXCEPT ![t].error = "IndexError"]
               /\ UNCHANGED returned
          ELSE IF ~o.is_list /\ o.mids[1].type = "StatusCode"
          THEN /\ pc' = [pc EXCEPT ![t] = "raised"]
               /\ op' = [op EXCEPT ![t].error = "BadStatus"]
               /\ UNCHANGED returned
          ELSE /\ pc' = [pc EXCEPT ![t] = "idle"]
               /\ op' = [op EXCEPT ![t] = IdleOp]
               /\ returned' = returned \cup
                     {[handle |-> ReturnedHandle(o, i), client |-> o.mirs[i].ClientHandle,
                       is_list |-> o.is_list] : i \in good}
    /\ UNCHANGED <<subscription_id, client_handle, monitoreditems_map, lock, handler, ctor,
                   pub, server, acks, trace, finished, assigned, unsubs>>

\* an exception that left subscribe_data_change, subscribe_events or unsubscribe
\* reaches the application
Raised(t) ==
    /\ pc[t] = "raised"
    /\ pc' = [pc EXCEPT ![t] = "idle"]
    /\ op' = [op EXCEPT ![t] = IdleOp]
    /\ UNCHANGED <<subscription_id, client_handle, monitoreditems_map, lock, handler, ctor,
                   pub, server, acks, trace, finished, assigned, returned, unsubs>>

(* ------------------------------ unsubscribe ---------------------------- *)
\* unsubscribe(handle), with a handle an earlier subscribe call returned
UnsubscribeCall(t) ==
    /\ ctor = "done"
    /\ pc[t] = "idle"
    /\ unsubs[t] < MaxUnsub
    /\ \E r \in returned :
          op' = [op EXCEPT ![t] = [IdleOp EXCEPT !.name = "unsubscribe", !.handle = r.handle]]
    /\ unsubs' = [unsubs EXCEPT ![t] = @ + 1]
    /\ pc' = [pc EXCEPT ![t] = "unsub_send"]
    /\ UNCHANGED <<subscription_id, client_handle, monitoreditems_map, lock, handler, ctor,
                   pub, server, acks, trace, finished, assigned, returned>>

\* (variant of check: the status of the deletion is not looked at)
checkSkipped(status) == "None"

\* StatusCode.check(): raises for a status that is not good
check(status) == IF is_good(status) THEN "None" ELSE "BadStatus"

\* results = self.server.delete_monitored_items(params); results[0].check()
UnsubscribeSend(t) ==
    /\ pc[t] = "unsub_send"
    /\ \E status \in StatusCodes :
          IF check(status) = "None"
          THEN /\ pc' = [pc EXCEPT ![t] = "unsub_scan"]
               /\ op' = [op EXCEPT ![t].results = <<status>>]
          ELSE /\ pc' = [pc EXCEPT ![t] = "raised"]
               /\ op' = [op EXCEPT ![t].results = <<status>>, ![t].error = "BadStatus"]
    /\ UNCHANGED <<subscription_id, client_handle, monitoreditems_map, lock, handler, ctor,
                   pub, server, acks, trace, finished, assigned, returned, unsubs>>

\* (variant of Matches: the scan compares the client handle)
MatchesClientHandle(map, handle) == {k \in DOMAIN map : map[k].client_handle = handle}

\* the keys the scan stops at: if v.server_handle == handle
Matches(map, handle) == {k \in DOMAIN map : map[k].server_handle = handle}

\* with self._lock:
\*     for k, v in self._monitoreditems_map.items(): ... del(self._monitoreditems_map[k]); return
UnsubscribeScan(t) ==
    /\ pc[t] = "unsub_scan"
    /\ WithLock(t)
    /\ LET m == Matches(monitoreditems_map, op[t].handle)
       IN IF m = {} THEN UNCHANGED monitoreditems_map
          ELSE \E k \in m : monitoreditems_map' = DictDel(monitoreditems_map, k)
    /\ pc' = [pc EXCEPT ![t] = "idle"]
    /\ op' = [op EXCEPT ![t] = IdleOp]
    /\ UNCHANGED <<subscription_id, client_handle, handler, ctor,
                   pub, server, acks, trace, finished, assigned, returned, unsubs>>

(* --------------------------------- delete ------------------------------ *)
\* (variant of SubscriptionIds: the request names no subscription)
SubscriptionIdsNone(id) == <<>>

\* the argument of delete_subscriptions: [self.subscription_id]
SubscriptionIds(id) == <<id>>

\* delete(), whatever is registered
DeleteCall(t) ==
    /\ ctor = "done"
    /\ pc[t] = "idle"
    /\ op' = [op EXCEPT ![t] = [IdleOp EXCEPT !.name = "delete",
                                              !.ids = SubscriptionIds(subscription_id)]]
    /\ pc' = [pc EXCEPT ![t] = "del_send"]
    /\ UNCHANGED <<subscription_id, client_handle, monitoreditems_map, lock, handler, ctor,
                   pub, server, acks, trace, finished, assigned, returned, unsubs>>

\* results = self.server.delete_subscriptions([self.subscription_id]); results[0].check()
DeleteSend(t) ==
    /\ pc[t] = "del_send"
    /\ \E status \in StatusCodes :
          IF check(status) = "None"
          THEN /\ pc' = [pc EXCEPT ![t] = "del_return"]
               /\ op' = [op EXCEPT ![t].results = <<status>>]
          ELSE /\ pc' = [pc EXCEPT ![t] = "raised"]
               /\ op' = [op EXCEPT ![t].results = <<status>>, ![t].error = "BadStatus"]
    /\ UNCHANGED <<subscription_id, client_handle, monitoreditems_map, lock, handler, ctor,
                   pub, server, acks, trace, finished, assigned, returned, unsubs>>

\* delete returns None
DeleteReturn(t) ==
    /\ pc[t] = "del_return"
    /\ pc' = [pc EXCEPT ![t] = "idle"]
    /\ op' = [op EXCEPT ![t] = IdleOp]
    /\ UNCHANGED <<subscription_id, client_handle, monitoreditems_map, lock, handler, ctor,
                   pub, server, acks, trace, finished, assigned, returned, unsubs>>

(* ---------------------------- publish responses ------------------------ *)
ClientHandles(mirs) == {mirs[i].ClientHandle : i \in DOMAIN mirs}

\* the request that carries client handle h
RequestOf(h) == assigned[CHOOSE i \in DOMAIN assigned : assigned[i].ClientHandle = h]

\* client handles of the requests the server was sent
SentHandles ==
    ClientHandles(assigned) \
       UNION {ClientHandles(op[t].mirs) :
                 t \in {x \in Callers : pc[x] \in {"mk_acquire", "mk_incr", "mk_read",
                                                   "cmi_insert", "cmi_send"}}}

\* a request of a create_monitored_items call that was sent and whose results are
\* not processed yet carries client handle h
InFlight(h) ==
    \E t \in Callers : pc[t] = "cmi_process" /\ h \in ClientHandles(op[t].mirs)

\* client handles of the items the server reports on: their request was sent and is
\* in flight, or they are registered
ServerItems == {h \in SentHandles : InFlight(h) \/ h \in DOMAIN monitoreditems_map}

\* client handles a data-change record can carry: one of these, or one the map lacks
DataHandles == ServerItems \cup {UnknownHandle}

\* client handles an event record can carry: as above, of an event item
EventHandles ==
    {h \in ServerItems : RequestOf(h).AttributeId = "EventNotifier"} \cup {UnknownHandle}

\* the server has the subscription, and the transport its callback, once
\* create_subscription was served
ServerHasSubscription == ctor \notin {"create_subscription", "failed"}

\* the transport answers an outstanding publish request and calls publish_callback
PublishResponse ==
    /\ pub.pc = "idle"
    /\ ServerHasSubscription
    /\ server.outstanding > 0
    /\ server.seq < MaxResponses
    /\ \E n \in 1..MaxNotifs :
          pub' = [IdlePub EXCEPT !.pc = "wait", !.seq = server.seq + 1, !.n = n,
                                 !.early = (subscription_id = None)]
    /\ server' = [server EXCEPT !.outstanding = @ - 1, !.seq = @ + 1]
    /\ UNCHANGED <<subscription_id, client_handle, monitoreditems_map, lock, handler, ctor,
                   pc, op, acks, trace, finished, assigned, returned, unsubs>>

\* while self.subscription_id is None: time.sleep(0.01)
PublishWait ==
    /\ pub.pc = "wait"
    /\ subscription_id # None
    /\ pub' = [pub EXCEPT !.pc = "notif"]
    /\ UNCHANGED <<subscription_id, client_handle, monitoreditems_map, lock, handler, ctor,
                   pc, op, server, acks, trace, finished, assigned, returned, unsubs>>

\* where publish_callback goes for a record of the given type
HandlerOf(type) ==
    CASE type = "DataChangeNotification" -> "dc_lookup"
      [] type = "EventNotificationList" -> "ev_lookup"
      [] type = "StatusChangeNotification" -> "st_call"
      [] OTHER -> "unsupported"

\* for notif in publishresult.NotificationMessage.NotificationData: if isinstance(...)
Dispatch ==
    /\ pub.pc = "notif"
    /\ pub.i <= pub.n
    /\ \E type \in {"DataChangeNotification", "EventNotificationList",
                    "StatusChangeNotification", "Unsupported"},
          m \in 1..MaxRecs :
          /\ type \in {"StatusChangeNotification", "Unsupported"} => m = 1
          /\ pub' = [pub EXCEPT !.pc = HandlerOf(type), !.type = type, !.m = m, !.j = 1]
    /\ trace' = <<>>
    /\ UNCHANGED <<subscription_id, client_handle, monitoreditems_map, lock, handler, ctor,
                   pc, op, server, acks, finished, assigned, returned, unsubs>>

\* (variant of NextItem: the rest of the record is passed over)
NextItemNextRecord(p) ==
    [p EXCEPT !.i = p.i + 1, !.j = 1, !.pc = "notif", !.item = NoItem,
              !.entry = SubscriptionItemData, !.pending = FALSE]

\* the position after item j of record i
NextItem(p) ==
    IF p.j < p.m
    THEN [p EXCEPT !.j = p.j + 1, !.pc = HandlerOf(p.type), !.item = NoItem,
                   !.entry = SubscriptionItemData, !.pending = FALSE]
    ELSE [p EXCEPT !.i = p.i + 1, !.j = 1, !.pc = "notif", !.item = NoItem,
                   !.entry = SubscriptionItemData, !.pending = FALSE]

\* an exception leaves publish_callback
Abort(how) ==
    /\ finished' = Append(finished, [seq |-> pub.seq, how |-> how, raised |-> pub.raised])
    /\ pub' = IdlePub
    /\ trace' = <<>>

\* what became of the item at hand
Outcome(what, cb, raised) ==
    [j |-> pub.j, handle |-> pub.item.ClientHandle, what |-> what, cb |-> cb,
     node |-> pub.entry.node, val |-> pub.item.Value, arg |-> pub.entry.server_handle,
     pending |-> pub.pending, raised |-> raised]

\* (variant of AfterCallback: the call is not inside try/except)
AfterCallbackUncaught(raised) == IF raised THEN "raised" ELSE "logged"

\* what becomes of an exception raised by a handler callback: every callback is
\* called inside try: ... except Exception: self.logger.exception(...)
AfterCallback(raised) == "logged"

\* handler callback cb is called for the item at hand and returns or raises
Call(cb) ==
    \E raised \in BOOLEAN :
       IF raised /\ AfterCallback(raised) # "logged"
       THEN Abort("callback")
       ELSE /\ trace' = Append(trace, Outcome("called", cb, raised))
            /\ pub' = [NextItem(pub) EXCEPT !.raised = pub.raised \/ raised]
            /\ UNCHANGED finished

\* no callback to call for the item at hand: self.logger.error(...)
NoCallback ==
    /\ trace' = Append(trace, Outcome("no handler", "None", FALSE))
    /\ pub' = NextItem(pub)
    /\ UNCHANGED finished

(* ------------------------------ _call_datachange ----------------------- *)
\* (variant of AfterUnknown: the loop over the items is left)
AfterUnknownReturn(p) ==
    [p EXCEPT !.i = p.i + 1, !.j = 1, !.pc = "notif", !.item = NoItem,
              !.entry = SubscriptionItemData, !.pending = FALSE]

\* what follows an item whose ClientHandle is not in the map: warning, continue
AfterUnknown(p) == NextItem(p)

\* with self._lock:
\*     if item.ClientHandle not in self._monitoreditems_map: ... continue
\*     data = self._monitoreditems_map[item.ClientHandle]
DataChangeLookup ==
    /\ pub.pc = "dc_lookup"
    /\ WithLock(Pub)
    /\ \E h \in DataHandles, v \in Values :
          IF h \notin DOMAIN monitoreditems_map
          THEN /\ trace' = Append(trace, [Outcome("unknown", "None", FALSE) EXCEPT
                                             !.handle = h, !.val = v, !.pending = InFlight(h)])
               /\ pub' = AfterUnknown(pub)
          ELSE /\ pub' = [pub EXCEPT !.pc = "dc_call", !.item = [ClientHandle |-> h, Value |-> v],
                                     !.entry = monitoreditems_map[h], !.pending = InFlight(h)]
               /\ UNCHANGED trace
    /\ UNCHANGED <<subscription_id, client_handle, monitoreditems_map, handler, ctor,
                   pc, op, server, acks, finished, assigned, returned, unsubs>>

\* (variant of DataChangeCallback: the deprecated callback is looked for first)
DataChangeCallbackDeprecatedFirst(h) ==
    IF hasattr(h, "data_change") THEN "data_change"
    ELSE IF hasattr(h, "datachange_notification") THEN "datachange_notification"
    ELSE "None"

\* the callback _call_datachange picks: the primary one, else the deprecated one
DataChangeCallback(h) ==
    IF hasattr(h, "datachange_notification") THEN "datachange_notification"
    ELSE IF hasattr(h, "data_change") THEN "data_change"
    ELSE "None"

\* self._handler.datachange_notification(data.node, value, event_data), or
\* self._handler.data_change(data.server_handle, data.node, value, data.attribute)
DataChangeCall ==
    /\ pub.pc = "dc_call"
    /\ LET cb == DataChangeCallback(handler)
       IN IF cb = "None" THEN NoCallback ELSE Call(cb)
    /\ UNCHANGED <<subscription_id, client_handle, monitoreditems_map, lock, handler, ctor,
                   pc, op, server, acks, assigned, returned, unsubs>>

(* --------------------------------- _call_event ------------------------- *)
\* with self._lock: data = self._monitoreditems_map[event.ClientHandle]
\* (KeyError for a missing key)
EventLookup ==
    /\ pub.pc = "ev_lookup"
    /\ WithLock(Pub)
    /\ \E h \in EventHandles, v \in Values :
          IF h \notin DOMAIN monitoreditems_map
          THEN Abort("KeyError")
          ELSE /\ pub' = [pub EXCEPT !.pc = "ev_call", !.item = [ClientHandle |-> h, Value |-> v],
                                     !.entry = monitoreditems_map[h], !.pending = InFlight(h)]
               /\ UNCHANGED <<trace, finished>>
    /\ UNCHANGED <<subscription_id, client_handle, monitoreditems_map, handler, ctor,
                   pc, op, server, acks, assigned, returned, unsubs>>

\* the callback _call_event picks
EventCallback(h) ==
    IF hasattr(h, "event_notification") THEN "event_notification"
    ELSE IF hasattr(h, "event") THEN "event"
    ELSE "None"

\* self._handler.event_notification(result), or self._handler.event(data.server_handle, result)
EventCall ==
    /\ pub.pc = "ev_call"
    /\ LET cb == EventCallback(handler)
       IN IF cb = "None" THEN NoCallback ELSE Call(cb)
    /\ UNCHANGED <<subscription_id, client_handle, monitoreditems_map, lock, handler, ctor,
                   pc, op, server, acks, assigned, returned, unsubs>>

(* -------------------------------- _call_status ------------------------- *)
\* try: self._handler.status_change_notification(status.Status); except Exception: ...
\* (a handler without the method raises AttributeError inside the try)
StatusCall ==
    /\ pub.pc = "st_call"
    /\ IF hasattr(handler, "status_change_notification")
       THEN Call("status_change_notification")
       ELSE IF AfterCallback(TRUE) # "logged"
       THEN Abort("callback")
       ELSE /\ trace' = Append(trace, Outcome("no handler", "None", FALSE))
            /\ pub' = NextItem(pub)
            /\ UNCHANGED finished
    /\ UNCHANGED <<subscription_id, client_handle, monitoreditems_map, lock, handler, ctor,
                   pc, op, server, acks, assigned, returned, unsubs>>

\* self.logger.warning("Notification type not supported yet ...")
Unsupported ==
    /\ pub.pc = "unsupported"
    /\ trace' = Append(trace, Outcome("unsupported", "None", FALSE))
    /\ pub' = NextItem(pub)
    /\ UNCHANGED <<subscription_id, client_handle, monitoreditems_map, lock, handler, ctor,
                   pc, op, server, acks, finished, assigned, returned, unsubs>>

\* the acknowledgement of the response at hand
SubscriptionAcknowledgement(id, seq) == [SubscriptionId |-> id, SequenceNumber |-> seq]

\* after the loop: ack = ua.SubscriptionAcknowledgement(); ...; self.server.publish([ack])
Acknowledge ==
    /\ pub.pc = "notif"
    /\ pub.i > pub.n
    /\ acks' = Append(acks, SubscriptionAcknowledgement(subscription_id, pub.seq))
    /\ server' = [server EXCEPT !.outstanding = @ + 1]
    /\ finished' = Append(finished, [seq |-> pub.seq, how |-> "acked", raised |-> pub.raised])
    /\ pub' = IdlePub
    /\ trace' = <<>>
    /\ UNCHANGED <<subscription_id, client_handle, monitoreditems_map, lock, handler, ctor,
                   pc, op, assigned, returned, unsubs>>

(* ------------------------------ specifications ------------------------- *)
Constructor == CtorCreate \/ CtorFail \/ CtorStore \/ CtorPublish

Caller(t) ==
    \/ SubscribeDataChange(t)
    \/ SubscribeEvents(t)
    \/ MakeRequestAcquire(t)
    \/ MakeRequestIncrement(t)
    \/ MakeRequestRead(t)
    \/ CreateItemsInsert(t)
    \/ CreateItemsSend(t)
    \/ CreateItemsProcess(t)
    \/ SubscribeReturn(t)
    \/ Raised(t)
    \/ UnsubscribeCall(t)
    \/ UnsubscribeSend(t)
    \/ UnsubscribeScan(t)

Deleter(t) ==
    \/ DeleteCall(t)
    \/ DeleteSend(t)
    \/ DeleteReturn(t)

\* the collaborator fails thread t's create_monitored_items request
Faults(t) ==
    \/ CreateItemsTransportError(t)
    \/ CreateItemsShort(t)

Publisher ==
    \/ PublishResponse
    \/ PublishWait
    \/ Dispatch
    \/ DataChangeLookup
    \/ DataChangeCall
    \/ EventLookup
    \/ EventCall
    \/ StatusCall
    \/ Unsupported
    \/ Acknowledge

Next == Constructor \/ (\E t \in Callers : Caller(t) \/ Deleter(t)) \/ Publisher

Spec == Init /\ [][Next]_vars

\* the application threads alone
NextCallers == Constructor \/ (\E t \in Callers : Caller(t) \/ Deleter(t))

SpecCallers == Init /\ [][NextCallers]_vars

\* the application threads, with a collaborator that may fail create_monitored_items
NextFaults == Constructor \/ (\E t \in Callers : Caller(t) \/ Faults(t))

SpecFaults == Init /\ [][NextFaults]_vars

\* one application thread and the publish thread
NextPublish == Constructor \/ Caller(1) \/ Publisher

SpecPublish == Init /\ [][NextPublish]_vars

\* the subscription is constructed on a session that has publish requests
\* outstanding, which the server may answer with this subscription's notifications
InitStartup ==
    /\ subscription_id = None
    /\ client_handle = FirstClientHandle
    /\ monitoreditems_map = << >>
    /\ lock = {}
    /\ handler \in Handlers
    /\ ctor = "create_subscription"
    /\ pc = [t \in Callers |-> "idle"]
    /\ op = [t \in Callers |-> IdleOp]
    /\ pub = IdlePub
    /\ \E prior \in 0..MaxPrior :
          server = [next_mid |-> 1, outstanding |-> prior, seq |-> 0, requests |-> <<>>]
    /\ acks = <<>>
    /\ trace = <<>>
    /\ finished = <<>>
    /\ assigned = <<>>
    /\ returned = {}
    /\ unsubs = [t \in Callers |-> 0]

\* the steps publish_callback takes while nothing is registered
Callback ==
    \/ PublishWait
    \/ Dispatch
    \/ DataChangeLookup
    \/ EventLookup
    \/ StatusCall
    \/ Unsupported
    \/ Acknowledge

\* the constructor and the publish thread, before the application subscribes
NextStartup == Constructor \/ PublishResponse \/ Callback

SpecStartup == InitStartup /\ [][NextStartup]_vars

\* the thread running __init__ and the thread running publish_callback are scheduled
SpecStartupFair == SpecStartup /\ WF_vars(Constructor) /\ WF_vars(Callback)

(* ------------------------------ properties ----------------------------- *)
\* map without the keys in K
Without(map, K) == [k \in (DOMAIN map) \ K |-> map[k]]

\* thread t takes the step of the given position
Steps(t, from) == pc[t] = from /\ pc'[t] # from

\* C1: the client handles put into requests are pairwise distinct, each is larger
\* than all handed out before it and none exceeds the counter, whatever the
\* interleaving of the subscribing threads; the counter never decreases
C1_HandlesIncrease ==
    /\ \A i, j \in DOMAIN assigned :
          i < j => assigned[i].ClientHandle < assigned[j].ClientHandle
    /\ \A i \in DOMAIN assigned :
          /\ assigned[i].ClientHandle > FirstClientHandle
          /\ assigned[i].ClientHandle <= client_handle

C1_UniqueClientHandles ==
    [] C1_HandlesIncrease /\ [][client_handle' >= client_handle]_vars

\* two subscribe calls run at once and each has been given a handle
C1_Witness ==
    \E t, u \in Callers :
       /\ t # u
       /\ op[t].mirs # <<>> /\ op[u].mirs # <<>>
       /\ op[t].mirs[1].ClientHandle # op[u].mirs[1].ClientHandle

\* C3: when create_monitored_items has processed the results, mids has one entry
\* per request; a request whose result is not good is gone from the map and its
\* status code is at its position; a request whose result is good is in the map
\* with the result's MonitoredItemId as server handle and that id at its position
C3_Processed(t) ==
    LET o == op'[t]
    IN /\ Len(o.mids) = Len(o.mirs)
       /\ \A i \in DOMAIN o.mirs :
             LET h == o.mirs[i].ClientHandle
                 r == o.results[i]
             IN IF r.StatusCode # "Good"
                THEN /\ h \notin DOMAIN monitoreditems_map'
                     /\ o.mids[i] = [type |-> "StatusCode", id |-> None,
                                     status |-> r.StatusCode]
                ELSE /\ h \in DOMAIN monitoreditems_map'
                     /\ monitoreditems_map'[h].server_handle = r.MonitoredItemId
                     /\ monitoreditems_map'[h].node = o.mirs[i].NodeId
                     /\ o.mids[i] = [type |-> "int", id |-> r.MonitoredItemId,
                                     status |-> "None"]

C3_ResultsProcessed ==
    [][\A t \in Callers : Steps(t, "cmi_process") => C3_Processed(t)]_vars

\* a call for two nodes has processed a rejection followed by a success
C3_Witness ==
    \E t \in Callers :
       /\ pc[t] = "sub_return"
       /\ Len(op[t].mids) = 2
       /\ op[t].mids[1].type = "StatusCode" /\ op[t].mids[2].type = "int"
       /\ op[t].mirs[1].ClientHandle \notin DOMAIN monitoreditems_map
       /\ op[t].mirs[2].ClientHandle \in DOMAIN monitoreditems_map

\* C4: the step of unsubscribe(h) that runs after the server accepted the deletion
\* removes the entry whose server handle is h, of which there is at most one, and
\* leaves every other entry as it was; with no such entry the map is unchanged
C4_UnsubscribeRemovesExactly ==
    [][\A t \in Callers :
          Steps(t, "unsub_scan") =>
             LET m == {k \in DOMAIN monitoreditems_map :
                          monitoreditems_map[k].server_handle = op[t].handle}
             IN /\ Cardinality(m) <= 1
                /\ monitoreditems_map' = Without(monitoreditems_map, m)]_vars

\* an item was unsubscribed while another one stayed registered
C4_Witness ==
    \E r, q \in returned :
       /\ r.client \notin DOMAIN monitoreditems_map
       /\ q.client \in DOMAIN monitoreditems_map
       /\ monitoreditems_map[q.client].server_handle = q.handle

\* C9: when the server rejects the deletion, unsubscribe raises BadStatus and the
\* map is as before; the scan runs only after a good status, and an entry that has
\* a server handle leaves the map only in the scan of an unsubscribe of that handle
C9_RejectedUnsubscribe ==
    [][/\ \A t \in Callers :
             /\ (Steps(t, "unsub_send") /\ op'[t].results[1] # "Good")
                   => /\ pc'[t] = "raised"
                      /\ op'[t].error = "BadStatus"
                      /\ monitoreditems_map' = monitoreditems_map
             /\ Steps(t, "unsub_scan") => op[t].results[1] = "Good"
       /\ \A k \in (DOMAIN monitoreditems_map) \ DOMAIN monitoreditems_map' :
             monitoreditems_map[k].server_handle # None =>
                \E t \in Callers : /\ Steps(t, "unsub_scan")
                                   /\ op[t].handle = monitoreditems_map[k].server_handle]_vars

\* an unsubscribe was rejected and the item is still registered
C9_Witness ==
    \E t \in Callers :
       /\ pc[t] = "raised"
       /\ op[t].name = "unsubscribe"
       /\ op[t].error = "BadStatus"
       /\ \E k \in DOMAIN monitoreditems_map :
             monitoreditems_map[k].server_handle = op[t].handle

\* C10: a handle a subscribe call returned is the server handle of the entry that
\* call created and of no other entry, and the scan of unsubscribe(handle) leaves
\* the map without that entry and otherwise as it was
C10_HandleNamesItem ==
    \A r \in returned :
       \A k \in DOMAIN monitoreditems_map :
          monitoreditems_map[k].server_handle = r.handle <=> k = r.client

C10_UnsubscribeReturnedHandle ==
    /\ [] C10_HandleNamesItem
    /\ [][\A t \in Callers :
             Steps(t, "unsub_scan") =>
                \A r \in returned :
                   r.handle = op[t].handle =>
                      monitoreditems_map' = Without(monitoreditems_map, {r.client})]_vars

\* the item of a single-target subscribe was unsubscribed with the returned handle
\* while the other thread was inside a call of its own
C10_Witness ==
    \E r \in returned, t \in Callers :
       /\ ~r.is_list
       /\ r.client \notin DOMAIN monitoreditems_map
       /\ pc[t] \notin {"idle", "raised"}

\* the entries of trace
Entries == {trace[k] : k \in DOMAIN trace}

DataChangeCallbacks == {"datachange_notification", "data_change"}

\* the acknowledgements sent for the response with sequence number seq
AcksFor(seq) ==
    {a \in DOMAIN acks :
        acks[a] = [SubscriptionId |-> SubId, SequenceNumber |-> seq]}

\* C2: from the insertion before the request is sent until its results are
\* processed, every request of the call is in the map under its client handle with
\* its node and no server handle; a data-change item that names such a handle
\* after the send is resolved to that entry, and the handler's data-change
\* callback, if it has one, is called with that node
C2_RegisteredBeforeSend ==
    /\ \A t \in Callers :
          pc[t] \in {"cmi_send", "cmi_process"} =>
             \A i \in DOMAIN op[t].mirs :
                LET h == op[t].mirs[i].ClientHandle
                IN /\ h \in DOMAIN monitoreditems_map
                   /\ monitoreditems_map[h].server_handle = None
                   /\ monitoreditems_map[h].node = op[t].mirs[i].NodeId
    /\ pub.type = "DataChangeNotification" =>
          \A e \in Entries :
             e.pending =>
                /\ e.what # "unknown"
                /\ e.node = RequestOf(e.handle).NodeId
                /\ e.arg = None
                /\ handler \cap DataChangeCallbacks # {} =>
                      e.what = "called" /\ e.cb \in DataChangeCallbacks

\* a data-change item for a request in flight was delivered
C2_Witness ==
    /\ pub.type = "DataChangeNotification"
    /\ \E e \in Entries : e.pending /\ e.what = "called" /\ e.arg = None

\* C5: in a data-change notification every item is dealt with once and in order;
\* an item whose client handle the map lacks is skipped without a callback, every
\* other item reaches the handler's data-change callback, if it has one, with the
\* node registered under the item's client handle and the item's value
C5_UnknownHandleSkipped ==
    pub.type = "DataChangeNotification" =>
       /\ pub.pc \in {"dc_lookup", "dc_call"} => Len(trace) = pub.j - 1
       /\ pub.pc = "notif" => Len(trace) = pub.m
       /\ \A k \in DOMAIN trace :
             LET e == trace[k]
             IN /\ e.j = k
                /\ e.what = "unknown" <=> e.handle = UnknownHandle
                /\ e.what = "unknown" => e.cb = "None" /\ ~e.raised
                /\ e.what # "unknown" =>
                      /\ e.node = RequestOf(e.handle).NodeId
                      /\ e.val \in Values
                      /\ handler \cap DataChangeCallbacks # {} =>
                            e.what = "called" /\ e.cb \in DataChangeCallbacks

\* a notification of two items: the first unknown and skipped, the second delivered
C5_Witness ==
    /\ pub.type = "DataChangeNotification"
    /\ pub.pc = "notif"
    /\ Len(trace) = 2
    /\ trace[1].what = "unknown"
    /\ trace[2].what = "called"

\* C6: an exception raised by a handler callback never ends publish_callback: the
\* step in which it is raised goes on to the next item exactly as a return does,
\* and a response that ended with its acknowledgement has exactly one, whether or
\* not callbacks raised while it was processed
C6_CallbackFailureIsolated ==
    /\ [] (\A k \in DOMAIN finished :
              /\ finished[k].how # "callback"
              /\ finished[k].how = "acked" => Cardinality(AcksFor(finished[k].seq)) = 1)
    /\ [][(Len(trace') = Len(trace) + 1 /\ trace'[Len(trace')].raised) =>
             /\ finished' = finished
             /\ pub' = [NextItem(pub) EXCEPT !.raised = TRUE]]_vars

\* a callback raised in the first response; it was acknowledged, and so was the next
C6_Witness ==
    /\ Len(finished) = 2
    /\ finished[1].raised /\ finished[1].how = "acked"
    /\ finished[2].how = "acked"
    /\ Len(acks) = 2

\* C7: every publish response publish_callback has dealt with was answered by
\* exactly one acknowledgement with this subscription's id and its sequence number
C7_OneAckPerResponse ==
    \A k \in DOMAIN finished : Cardinality(AcksFor(finished[k].seq)) = 1

\* C8: an event whose client handle the map lacks does not end publish_callback
\* with an exception
C8_UnknownEventSkipped ==
    \A k \in DOMAIN finished : finished[k].how # "KeyError"

\* the handles a subscribe_data_change call for a single node hands back in this step
DataChangeHandles(t) ==
    {r \in returned' \ returned :
        ~r.is_list /\ RequestOf(r.client).AttributeId = "Value"}

\* C11 (as the code has it): the handle subscribe_data_change returns for a single
\* node is the MonitoredItemId of the server's result, which is the server handle
\* of the entry registered under the request's client handle; it is not that
\* client handle
C11_ReturnsServerHandle ==
    [][\A t \in Callers :
          Steps(t, "sub_return") =>
             \A r \in DataChangeHandles(t) :
                /\ r.handle = op[t].results[1].MonitoredItemId
                /\ r.client = op[t].mirs[1].ClientHandle
                /\ r.client \in DOMAIN monitoreditems_map
                /\ monitoreditems_map[r.client].server_handle = r.handle
                /\ r.handle # r.client]_vars

\* the first item of the subscription, keyed 201, was returned as server handle 1
C11_Witness ==
    \E r \in returned :
       /\ ~r.is_list
       /\ r.client = FirstClientHandle + 1
       /\ RequestOf(r.client).AttributeId = "Value"
       /\ r.client \in DOMAIN monitoreditems_map
       /\ monitoreditems_map[r.client].server_handle = r.handle
       /\ r.handle # r.client

\* C11 (as claimed): the handle subscribe_data_change returns for a single node is
\* the client handle under which the item is keyed in the map
C11_ReturnsClientHandle ==
    \A r \in returned :
       (~r.is_list /\ RequestOf(r.client).AttributeId = "Value") => r.handle = r.client

\* the publish requests among the requests of __init__
CtorPublishes == {i \in DOMAIN server.requests : server.requests[i].name = "publish"}

\* C12: __init__ sends one create_subscription request first, stores the id the
\* server issued after it, and then sends exactly two publish requests without
\* acknowledgement; no publish request is sent while the id is unset; when
\* create_subscription fails nothing else is sent and the id stays unset
C12_ConstructorOrder ==
    LET rq == server.requests
    IN /\ rq # <<>> => rq[1].name = "create_subscription"
       /\ \A i \in DOMAIN rq : i > 1 => rq[i].name = "publish"
       /\ subscription_id # None => (rq # <<>> /\ subscription_id = SubId)
       /\ CtorPublishes # {} => subscription_id # None
       /\ \A i \in CtorPublishes : rq[i].acks = <<>>
       /\ Cardinality(CtorPublishes) <= 2
       /\ ctor = "done" => (Cardinality(CtorPublishes) = 2 /\ subscription_id = SubId)
       /\ ctor = "failed" => (Len(rq) = 1 /\ subscription_id = None)

\* __init__ is through; a publish response arrived while the id was unset
C12_Witness ==
    /\ ctor = "done"
    /\ Len(server.requests) = 3
    /\ subscription_id = SubId
    /\ pub.early

\* C13: for a data-change item resolved to an entry exactly one thing happens:
\* datachange_notification is called if the handler has it; else data_change is
\* called if the handler has it; else nothing is called and an error is logged.
\* The step never ends publish_callback, and data_change is never called on a
\* handler that has datachange_notification
C13_DataChangeFallback ==
    /\ [] (pub.type = "DataChangeNotification" =>
              \A e \in Entries :
                 e.what # "unknown" =>
                    IF "datachange_notification" \in handler
                    THEN e.what = "called" /\ e.cb = "datachange_notification"
                    ELSE IF "data_change" \in handler
                    THEN e.what = "called" /\ e.cb = "data_change"
                    ELSE e.what = "no handler" /\ e.cb = "None")
    /\ [][(pub.pc = "dc_call" /\ pub' # pub) =>
             /\ finished' = finished
             /\ Len(trace') = Len(trace) + 1
             /\ trace'[Len(trace')].handle = pub.item.ClientHandle
             /\ pub'.pc \in {"dc_lookup", "notif"}]_vars

\* a handler with the deprecated method only was called through data_change
C13_Witness ==
    /\ pub.type = "DataChangeNotification"
    /\ "datachange_notification" \notin handler
    /\ \E e \in Entries : e.what = "called" /\ e.cb = "data_change"

\* thread t is inside delete()
InDelete(t) == pc[t] \in {"del_send", "del_return"} \/ op[t].name = "delete"

\* C14: delete() sends delete_subscriptions with exactly this subscription's id,
\* raises BadStatus if and only if the status the server reports is not good, and
\* whatever is registered it leaves the map, the handle counter and the
\* subscription id as they are
C14_Delete ==
    [][\A t \in Callers :
          /\ Steps(t, "del_send") =>
                /\ op[t].ids = <<SubId>>
                /\ op[t].ids = <<subscription_id>>
                /\ Len(op'[t].results) = 1
                /\ (op'[t].results[1] # "Good") <=>
                      (pc'[t] = "raised" /\ op'[t].error = "BadStatus")
                /\ (op'[t].results[1] = "Good") <=>
                      (pc'[t] = "del_return" /\ op'[t].error = "None")
          /\ ((InDelete(t) \/ InDelete(t)') /\ pc'[t] # pc[t]) =>
                /\ monitoreditems_map' = monitoreditems_map
                /\ client_handle' = client_handle
                /\ subscription_id' = subscription_id]_vars

\* delete() went through with an item registered and another one being created
C14_Witness ==
    \E t \in Callers :
       /\ pc[t] = "del_return"
       /\ op[t].results = <<"Good">>
       /\ \E k \in DOMAIN monitoreditems_map : monitoreditems_map[k].server_handle # None
       /\ \E k \in DOMAIN monitoreditems_map : monitoreditems_map[k].server_handle = None

\* the positions at which a thread is inside a request to the collaborator
InCollaboratorCall(t) == pc[t] \in {"cmi_send", "unsub_send", "del_send"}

\* publish_callback is inside a handler callback or inside server.publish
InCallback == pub.pc \in {"dc_call", "ev_call", "st_call"} \/ (pub.pc = "notif" /\ pub.i > pub.n)

\* C15: a thread that is inside create_monitored_items, delete_monitored_items,
\* delete_subscriptions or publish of the collaborator, or inside a handler
\* callback, does not own _lock; the lock has one owner at most
C15_NoLockAcrossCalls ==
    /\ \A t \in Callers : InCollaboratorCall(t) => t \notin lock
    /\ InCallback => Pub \notin lock
    /\ lock \subseteq Callers \cup {Pub}
    /\ Cardinality(lock) <= 1

\* the data-change callback is about to run for a resolved item while the
\* application thread is inside the block of _make_monitored_item_request
C15_Witness ==
    /\ pub.pc = "dc_call"
    /\ lock = {1}
    /\ pc[1] = "mk_incr"

\* while the id is unset publish_callback is at its wait loop at most: nothing is
\* dispatched, nothing has ended and nothing is acknowledged; no acknowledgement
\* carries an unset id
C16_NothingBeforeId ==
    /\ subscription_id = None =>
          /\ pub.pc \in {"idle", "wait"}
          /\ trace = <<>> /\ finished = <<>> /\ acks = <<>>
    /\ \A a \in DOMAIN acks : acks[a].SubscriptionId = SubId /\ SubId # None

\* the response with sequence number s arrived while the id was unset, and the
\* id is stored by now
C16_Released(s) == pub.early /\ pub.seq = s /\ subscription_id # None

\* publish_callback ended with a KeyError for the response with sequence number s
C16_KeyError(s) ==
    \E k \in DOMAIN finished : finished[k].seq = s /\ finished[k].how = "KeyError"

\* (what the code does give: the response is acknowledged unless the KeyError of
\* _call_event ends publish_callback)
C16_AckedUnlessKeyError ==
    /\ [] C16_NothingBeforeId
    /\ \A s \in 1..MaxResponses :
          C16_Released(s) ~> (AcksFor(s) # {} \/ C16_KeyError(s))

\* C16: a publish response that arrives while the subscription id is unset is
\* not dropped: nothing of it is dispatched and nothing acknowledged while the id
\* is unset, and once __init__ has stored the id all its records are dispatched
\* and its acknowledgement, carrying the stored id, is eventually sent
C16_WaitsForSubscriptionId ==
    /\ [] C16_NothingBeforeId
    /\ \A s \in 1..MaxResponses : C16_Released(s) ~> (AcksFor(s) # {})

\* publish_callback is at item pub.j of record pub.i
AtItem == pub.pc \in {"dc_lookup", "dc_call", "ev_lookup", "ev_call", "st_call", "unsupported"}

\* C17: within one publish response the records are taken in the order of the
\* response and the items of a record in the order of the record: an item is
\* looked at only when all items before it were dealt with and their callbacks
\* have returned, a record only when the record before it is through
C17_InOrder ==
    /\ [] (AtItem =>
              /\ pub.i \in 1..pub.n /\ pub.j \in 1..pub.m
              /\ Len(trace) = pub.j - 1
              /\ \A k \in DOMAIN trace : trace[k].j = k)
    /\ [][(pub.pc # "idle" /\ pub'.pc # "idle") =>
             /\ pub'.seq = pub.seq
             /\ \/ pub'.i = pub.i /\ pub'.j = pub.j
                \/ /\ pub'.i = pub.i /\ pub'.j = pub.j + 1
                   /\ AtItem /\ pub.j < pub.m
                   /\ Len(trace') = pub.j
                \/ /\ pub'.i = pub.i + 1 /\ pub'.j = 1
                   /\ AtItem /\ pub.j = pub.m
                   /\ Len(trace') = pub.m
                   /\ pub'.pc = "notif"]_vars

\* the second record of a response is through; its two items reached the
\* callback one after the other
C17_Witness ==
    /\ pub.pc = "notif"
    /\ pub.i = 3
    /\ Len(trace) = 2
    /\ trace[1].what = "called" /\ trace[1].j = 1
    /\ trace[2].what = "called" /\ trace[2].j = 2

\* thread t is inside create_monitored_items
InCreate(t) == pc[t] \in {"cmi_insert", "cmi_send", "cmi_process"}

\* C18: whenever no create_monitored_items call is in progress every entry of the
\* map has a server handle, also after a create_monitored_items request that
\* failed in the transport or was answered with fewer results than requests
C18_NoStalePlaceholder ==
    (\A t \in Callers : ~InCreate(t)) =>
       \A k \in DOMAIN monitoreditems_map : monitoreditems_map[k].server_handle # None

\* the data-change items whose unsubscribe has returned: a subscribe call returned
\* their handle and their entry has left the map, which an entry that has a
\* server handle does only in the last step of unsubscribe(handle)
Unsubscribed ==
    {r \in returned : /\ r.client \notin DOMAIN monitoreditems_map
                      /\ RequestOf(r.client).AttributeId = "Value"}

\* a data-change callback is called in this step for the item keyed h
DataChangeCalledFor(h) ==
    /\ Len(trace') = Len(trace) + 1
    /\ LET e == trace'[Len(trace')]
       IN e.what = "called" /\ e.cb \in DataChangeCallbacks /\ e.handle = h

\* C19: once unsubscribe(h) has returned, no data-change callback is called for
\* the item that had server handle h
C19_NoCallbackAfterUnsubscribe ==
    [][\A r \in Unsubscribed : ~DataChangeCalledFor(r.client)]_vars

\* what create_monitored_items of thread t, its results processed, has made of its
\* own requests: mids is parallel to them; a rejected one is not in the map, an
\* accepted one is there with the id of its own result as server handle
C20_OwnResults(t, map, o) ==
    /\ Len(o.mids) = Len(o.mirs)
    /\ \A i \in DOMAIN o.mirs :
          LET h == o.mirs[i].ClientHandle
              result == o.results[i]
          IN IF result.StatusCode = "Good"
             THEN /\ o.mids[i].type = "int" /\ o.mids[i].id = result.MonitoredItemId
                  /\ h \in DOMAIN map
                  /\ map[h].server_handle = result.MonitoredItemId
                  /\ map[h].node = o.mirs[i].NodeId
             ELSE /\ o.mids[i].type = "StatusCode" /\ o.mids[i].status = result.StatusCode
                  /\ h \notin DOMAIN map

\* C20: two create_monitored_items calls that run at the same time have disjoint
\* client handles; a step of one of them leaves every entry that is not of its
\* own requests as it was, the other call's placeholders included, and adds no
\* key but its own; when both have processed their results each has a mids
\* parallel to its requests and the map holds the accepted requests of either,
\* each with the server handle of its own result, and none of the rejected ones
C20_NoInterference ==
    /\ [] (\A t, u \in Callers :
              (t # u /\ pc[t] = "sub_return" /\ pc[u] = "sub_return") =>
                 /\ C20_OwnResults(t, monitoreditems_map, op[t])
                 /\ C20_OwnResults(u, monitoreditems_map, op[u])
                 /\ \A i \in DOMAIN op[t].mids, j \in DOMAIN op[u].mids :
                       (op[t].mids[i].type = "int" /\ op[u].mids[j].type = "int")
                          => op[t].mids[i].id # op[u].mids[j].id)
    /\ [][\A t, u \in Callers :
             (t # u /\ InCreate(t) /\ InCreate(u) /\ pc'[t] # pc[t]) =>
                LET mine == ClientHandles(op[t].mirs)
                IN /\ mine \cap ClientHandles(op[u].mirs) = {}
                   /\ DOMAIN monitoreditems_map' \subseteq DOMAIN monitoreditems_map \cup mine
                   /\ \A k \in (DOMAIN monitoreditems_map) \ mine :
                         /\ k \in DOMAIN monitoreditems_map'
                         /\ monitoreditems_map'[k] = monitoreditems_map[k]
                   /\ Steps(t, "cmi_process") =>
                         C20_OwnResults(t, monitoreditems_map', op'[t])]_vars

\* one call sent its request and processed its result while the other call, which
\* had sent its request before, was still waiting to process its own
C20_Witness ==
    \E t, u \in Callers :
       /\ t # u
       /\ pc[t] = "sub_return" /\ pc[u] = "cmi_process"
       /\ op[u].results[1].StatusCode = "Good" /\ op[u].results[1].MonitoredItemId = 1
       /\ op[t].mids[1].type = "int" /\ op[t].mids[1].id = 2
       /\ monitoreditems_map[op[t].mirs[1].ClientHandle].server_handle = 2
       /\ monitoreditems_map[op[u].mirs[1].ClientHandle].server_handle = None

====
